---- MODULE Spec2Model ----
(***************************************************************************)
(* A model of pyemit (src/pyemit/emit.py): the process-wide registry, the  *)
(* binder, the listener tasks, the RPC correlation table and the           *)
(* start/stop lifecycle, as an asyncio program.  One step of the model is  *)
(* what one task executes between two suspension points (an await that     *)
(* really yields): asyncio runs that block without interleaving.           *)
(*                                                                         *)
(* The program's state is held in the VARIABLES below.  The code of each   *)
(* function is an operator over a record w of all of them (the "world"),   *)
(* so that a call made by a function is part of the caller's step; an      *)
(* action evaluates the operator on the current world and commits it.      *)
(***************************************************************************)
EXTENDS Integers, Sequences, FiniteSets, TLC

VARIABLES started, engine, heart_beat, dsn, start_server, pub_conn, sub_conn,
          regKeys, registry, rpc_calls, chans, conns, tasks, msgs, ended, calls

vars == <<started, engine, heart_beat, dsn, start_server, pub_conn, sub_conn,
          regKeys, registry, rpc_calls, chans, conns, tasks, msgs, ended, calls>>

---------------------------------------------------------------------------
(* Bounds of the model. *)
MaxTasks == 6
MaxChans == 6
MaxConns == 6
\* MaxCalls: how many rpc_send calls there are (correlation ids 1..MaxCalls)
MaxCalls == 2
\* room for the request and the reply of every call
MaxMsgs == 2 * MaxCalls

---------------------------------------------------------------------------
(* Program constants. *)
IN_PROCESS == 0
REDIS == 1

rpc_client_channel == "__emit_rpc_client_channel__"
rpc_server_channel == "__emit_rpc_server_channel__"
heartbeat_channel == "heartbeat"

\* f"{exchange}/{event}"
EventKey(exchange, event) == exchange \o "/" \o event

UserEvents == {"a"}
Events == UserEvents \cup {rpc_client_channel, rpc_server_channel, heartbeat_channel}
Keys == {EventKey("", e) : e \in Events}
UserKeys == {EventKey("", e) : e \in UserEvents}
ClientKey == EventKey("", rpc_client_channel)
ServerKey == EventKey("", rpc_server_channel)
HeartbeatKey == EventKey("", heartbeat_channel)

client_handle_rpc_call == "_client_handle_rpc_call"
server_rpc_handler == "_server_rpc_handler"
on_heart_beat == "_on_heart_beat"
UserHandlers == {"h1", "h2"}
Handlers == UserHandlers \cup {client_handle_rpc_call, server_rpc_handler, on_heart_beat}

\* The order in which a handler set is iterated (a Python set iterates in a
\* fixed, arbitrary order).
HandlerOrder == <<client_handle_rpc_call, server_rpc_handler, on_heart_beat, "h1", "h2">>

None == 0          \* a name bound to None (connection, queue, dsn, result)
Absent == -1       \* a dict without the key 'queue'

---------------------------------------------------------------------------
(* Python values that travel as messages. *)
PyNone == [ty |-> "None", sn |-> 0, data |-> 0]
Obj(d) == [ty |-> "obj", sn |-> 0, data |-> d]
\* the request object handed to rpc_send: remote.sn, remote.timeout, server_impl
Remote(sn) == [ty |-> "remote", sn |-> sn, data |-> 0]
\* pickle.dumps: the value wrapped as a byte string; pickle.loads unwraps it
\* and raises on bytes that are no pickle.
dumps(v) == [ty |-> "bytes", of |-> <<v>>]
Garbage == [ty |-> "bytes", of |-> <<>>]
IsBytes(v) == v.ty = "bytes"
CanLoad(b) == b.ty = "bytes" /\ Len(b.of) = 1
loads(b) == b.of[1]
\* the dict a dispatcher hands to rpc_respond: '_sn_' and the pickled '_data_'
ReplyDict(sn, result) == [ty |-> "dict", sn |-> sn, data |-> dumps(Obj(result))]
\* the result the dispatcher computes for the request with id sn
ResultOf(sn) == 10 * sn + 1

---------------------------------------------------------------------------
(* The world: every variable of the program in one record.  ok is FALSE   *)
(* when a step would need more tasks, channels, connections or messages    *)
(* than the bounds allow; such a step is not taken.                        *)
World ==
  [started |-> started, engine |-> engine, heart_beat |-> heart_beat, dsn |-> dsn,
   start_server |-> start_server, pub_conn |-> pub_conn, sub_conn |-> sub_conn,
   regKeys |-> regKeys, registry |-> registry, rpc_calls |-> rpc_calls,
   chans |-> chans, conns |-> conns, tasks |-> tasks, msgs |-> msgs, ended |-> ended,
   ok |-> TRUE]

RemoveAt(s, i) == SubSeq(s, 1, i - 1) \o SubSeq(s, i + 1, Len(s))

\* A task that returned or failed leaves the event loop; ended keeps how the
\* last one ended.
Reap(w) ==
  LET fin == {t \in DOMAIN w.tasks : w.tasks[t].pc \in {"done", "failed"}} IN
  IF fin = {} THEN w
  ELSE LET t == CHOOSE x \in fin : TRUE IN
       [w EXCEPT !.tasks = RemoveAt(@, t),
                 !.ended = [kind |-> w.tasks[t].kind, pc |-> w.tasks[t].pc,
                            res |-> w.tasks[t].res, key |-> w.tasks[t].key,
                            sn |-> w.tasks[t].sn, val |-> w.tasks[t].val]]

NoneEnded == [kind |-> "", pc |-> "", res |-> "", key |-> "", sn |-> 0, val |-> 0]

Commit(w0) ==
  \E w1 \in {w0} :
  /\ w1.ok
  /\ \E w \in {Reap(w1)} :
     /\ started' = w.started
     /\ engine' = w.engine
     /\ heart_beat' = w.heart_beat
     /\ dsn' = w.dsn
     /\ start_server' = w.start_server
     /\ pub_conn' = w.pub_conn
     /\ sub_conn' = w.sub_conn
     /\ regKeys' = w.regKeys
     /\ registry' = w.registry
     /\ rpc_calls' = w.rpc_calls
     /\ chans' = w.chans
     /\ conns' = w.conns
     /\ tasks' = w.tasks
     /\ msgs' = w.msgs
     /\ ended' = w.ended

InSeq(x, s) == \E i \in 1..Len(s) : s[i] = x

\* An iteration over a handler set in progress: hs is the set object as it is
\* now, n0 its size when the iteration began, seen the handlers already
\* visited, live whether the registry still holds that object.
NoIter == [hs |-> {}, n0 |-> 0, seen |-> {}, live |-> FALSE]

\* A task (a coroutine run by the event loop, with the calls it is inside).
\*   kind   "listen" (_listen), "bind" (_bind from register), or a call of the
\*          application: "start", "stop", "emit", "areg", "rpc"
\*   pc     the await it is suspended at; "new" before its first step,
\*          "done" after its return, "failed" after an uncaught exception
\*   key,ch the event and the queue of _listen;  msg, fn, iter: the message in
\*          get_and_invoke, the handler awaited, the iteration over handlers
\*   it,n0  the position and the expected size of the dict iteration of
\*          start (for channel in _registry.keys()) or stop (_registry.values())
\*   bkey,bch,ctx  the event and the pubsub of a suspended _bind, and its caller
\*   obj    the connection or pubsub whose close() stop is awaiting
\*   eng    the engine _listen found when it began;  seng: start's parameter
\*   re     inside the stop-then-start of a reconnect (lines 162-163, 260-261)
\*   sn,val the correlation id of rpc_send, and the value it returned
\*   res    how the call ended: "ok", "noop", or the exception raised
NewTask(kind, key) ==
  [kind |-> kind, pc |-> "new", key |-> key, ch |-> None, msg |-> 0, fn |-> "",
   iter |-> NoIter, it |-> 0, n0 |-> 0, bkey |-> "", bch |-> None, ctx |-> "",
   obj |-> None, eng |-> IN_PROCESS, seng |-> IN_PROCESS, re |-> FALSE, res |-> "",
   sn |-> 0, val |-> 0]

Spawn(w, task) ==
  IF Len(w.tasks) < MaxTasks
  THEN [w EXCEPT !.tasks = Append(@, task)]
  ELSE [w EXCEPT !.ok = FALSE]

SetPc(w, t, pc) == [w EXCEPT !.tasks[t].pc = pc]
Finish(w, t, res) == [w EXCEPT !.tasks[t].pc = "done", !.tasks[t].res = res]
Fail(w, t, exc) == [w EXCEPT !.tasks[t].pc = "failed", !.tasks[t].res = exc]

R(w, exc) == [w |-> w, exc |-> exc]

---------------------------------------------------------------------------
(* The registry: _registry, a dict event -> {"handlers": set, "queue": q}. *)
(* regKeys is the dict's keys in insertion order; registry[k] is the item  *)
(* of key k (of no meaning while k is not in regKeys).  For the properties *)
(* an item also records its history: unsub, the handlers unsubscribe was   *)
(* called with for the key on a started bus, and late, the handlers        *)
(* registered after such a call for another handler.                       *)

NoItem == [handlers |-> {}, queue |-> Absent, unsub |-> {}, late |-> {}]

HasKey(w, key) == InSeq(key, w.regKeys)

\* _registry.get(key, {}).get('queue'): None for a missing key or item key
QueueOf(w, key) ==
  IF HasKey(w, key) /\ w.registry[key].queue # Absent THEN w.registry[key].queue ELSE None

\* The handler set of key was changed in place: every iteration over that
\* same set object sees the change; so does what a message may be handed to.
SyncIters(w, key, h) ==
  [w EXCEPT
     !.tasks = [t \in DOMAIN w.tasks |->
                  IF w.tasks[t].iter.live /\ w.tasks[t].key = key
                  THEN [w.tasks[t] EXCEPT !.iter.hs = w.registry[key].handlers]
                  ELSE w.tasks[t]],
     !.msgs = [m \in DOMAIN w.msgs |->
                  IF w.msgs[m].key # key THEN w.msgs[m]
                  ELSE IF h \in w.registry[key].handlers
                       THEN [w.msgs[m] EXCEPT !.allowed = @ \cup {h}]
                       ELSE [w.msgs[m] EXCEPT !.must = @ \ {h}, !.late = @ \ {h}]]]

\* register / async_register, lines 61-64 and 80-83:
\* item = _registry.get(event, {"handlers": set()}); item['handlers'].add(handler)
AddHandler(w, key, h) ==
  LET w1 == [w EXCEPT !.regKeys = IF HasKey(w, key) THEN @ ELSE Append(@, key),
                      !.registry[key] = IF HasKey(w, key)
                                        THEN [@ EXCEPT !.handlers = @ \cup {h},
                                                       !.late = IF w.registry[key].unsub \ {h} # {}
                                                                THEN @ \cup {h} ELSE @]
                                        ELSE [NoItem EXCEPT !.handlers = {h}]]
  IN SyncIters(w1, key, h)

\* binding['handlers'] = set(): a new set object; an iteration in progress
\* keeps the old one.
ClearBinding(w, key) ==
  [w EXCEPT
     !.registry[key] = [@ EXCEPT !.handlers = {}, !.queue = None, !.late = {}],
     !.msgs = [m \in DOMAIN w.msgs |->
                 IF w.msgs[m].key = key THEN [w.msgs[m] EXCEPT !.must = {}, !.late = {}]
                 ELSE w.msgs[m]],
     !.tasks = [t \in DOMAIN w.tasks |->
                  IF w.tasks[t].iter.live /\ w.tasks[t].key = key
                  THEN [w.tasks[t] EXCEPT !.iter.live = FALSE]
                  ELSE w.tasks[t]]]

\* unsubscribe, lines 316-327
unsubscribe(w, channel, handler, exchange) ==
  LET key == EventKey(exchange, channel) IN
  IF ~HasKey(w, key) THEN w
  ELSE SyncIters([w EXCEPT !.registry[key].handlers = @ \ {handler},
                           !.registry[key].late = @ \ {handler},
                           !.registry[key].unsub = IF w.started THEN @ \cup {handler} ELSE @], key, handler)

---------------------------------------------------------------------------
(* Channels (asyncio.Queue or aioredis PubSub objects), connections and    *)
(* messages.                                                               *)

\* A channel object: the event it carries, its pending messages, the
\* connection it reads from (None for a local queue), whether its subscribe
\* has completed, whether it is open, and a queue's unfinished-task count.
NewChan(w, key, conn) ==
  IF Len(w.chans) < MaxChans
  THEN [w EXCEPT !.chans = Append(@, [key |-> key, q |-> <<>>, conn |-> conn,
                                      sub |-> (conn = None), open |-> TRUE,
                                      unfinished |-> 0])]
  ELSE [w EXCEPT !.ok = FALSE]

\* aioredis.from_url(_dsn)
NewConn(w) ==
  IF Len(w.conns) < MaxConns
  THEN [w EXCEPT !.conns = Append(@, "open")]
  ELSE [w EXCEPT !.ok = FALSE]

\* the handlers registered for key now
HandlersOf(w, key) == IF HasKey(w, key) THEN w.registry[key].handlers ELSE {}

\* A message in flight: its event, its bytes, and how often each handler was
\* invoked with it.  For the properties, also: allowed, the handlers
\* registered for its event at any time since it was sent; must, the handlers
\* that were registered when it reached a channel (queued) and were not
\* removed since; late, those of must that had been registered after an
\* unsubscribe for the event.
NewMsg(w, key, body, queued) ==
  IF Len(w.msgs) < MaxMsgs
  THEN [w EXCEPT !.msgs = Append(@, [key |-> key, body |-> body,
                                     inv |-> [h \in Handlers |-> 0],
                                     allowed |-> HandlersOf(w, key),
                                     must |-> IF queued THEN HandlersOf(w, key) ELSE {},
                                     late |-> IF queued /\ HasKey(w, key)
                                              THEN w.registry[key].late ELSE {}])]
  ELSE [w EXCEPT !.ok = FALSE]

\* queue.put_nowait(message)
Put(w, queue, key, body) ==
  LET w1 == NewMsg(w, key, body, TRUE) IN
  IF ~w1.ok THEN w1
  ELSE [w1 EXCEPT !.chans[queue].q = Append(@, Len(w1.msgs)),
                  !.chans[queue].unfinished = @ + 1]

\* _pub_conn.publish(channel, message): the broker hands the message to
\* every subscription on that channel whose connection is alive.
Subscription(w, c, key) ==
  /\ w.chans[c].conn # None /\ w.chans[c].key = key
  /\ w.chans[c].sub /\ w.chans[c].open
  /\ w.conns[w.chans[c].conn] = "open"

Publish(w, key, body) ==
  LET w1 == NewMsg(w, key, body, \E c \in DOMAIN w.chans : Subscription(w, c, key)) IN
  IF ~w1.ok THEN w1
  ELSE [w1 EXCEPT !.chans =
          [c \in DOMAIN w1.chans |->
             IF Subscription(w1, c, key)
             THEN [w1.chans[c] EXCEPT !.q = Append(@, Len(w1.msgs))]
             ELSE w1.chans[c]]]

\* an emit that takes the queue with _registry[channel]['queue']
emit_KeyError(w, channel, message, exchange) ==
  LET key == EventKey(exchange, channel)
      body == IF IsBytes(message) THEN message ELSE dumps(message)
  IN IF ~w.started THEN R(w, "")
     ELSE IF w.engine = IN_PROCESS
          THEN IF QueueOf(w, key) = None THEN R(w, "KeyError")
               ELSE R(Put(w, QueueOf(w, key), key, body), "")
          ELSE IF w.pub_conn = None THEN R(w, "AttributeError")
               ELSE IF w.conns[w.pub_conn] # "open" THEN R(w, "ConnectionError")
               ELSE R(Publish(w, key, body), "")

\* emit, lines 231-262, up to the result of publish: exc is "" when emit
\* returns, or the exception publish raised.
emit(w, channel, message, exchange) ==
  IF ~w.started THEN R(w, "")
  ELSE
    LET key == EventKey(exchange, channel)
        body == IF IsBytes(message) THEN message ELSE dumps(message)
    IN IF w.engine = IN_PROCESS
       THEN IF QueueOf(w, key) = None THEN R(w, "")
            ELSE R(Put(w, QueueOf(w, key), key, body), "")
       ELSE IF w.pub_conn = None THEN R(w, "AttributeError")
            ELSE IF w.conns[w.pub_conn] # "open" THEN R(w, "ConnectionError")
            ELSE R(Publish(w, key, body), "")

\* a correlation handler that keeps one slot for all pending calls
client_handle_OneSlot(w, msg) ==
  IF msg.ty # "dict" THEN R(w, "AttributeError")
  ELSE IF msg.sn = None THEN R(w, "")
  ELSE R([w EXCEPT !.rpc_calls =
            [sn \in DOMAIN @ |->
               IF @[sn].present
               THEN [@[sn] EXCEPT !.result = [msg EXCEPT !.sn = 0], !.event = TRUE]
               ELSE @[sn]]], "")

\* _client_handle_rpc_call, lines 166-178
client_handle(w, msg) ==
  IF msg.ty # "dict" THEN R(w, "AttributeError")
  ELSE IF msg.sn = None THEN R(w, "")
  ELSE IF w.rpc_calls[msg.sn].present
       THEN R([w EXCEPT !.rpc_calls[msg.sn].result = [msg EXCEPT !.sn = 0],
                        !.rpc_calls[msg.sn].event = TRUE], "")
       ELSE R(w, "")

---------------------------------------------------------------------------
(* Returns and exceptions.  A task is inside a chain of calls; what a      *)
(* return or an exception of stop() or start() leads to depends on the     *)
(* caller: the application (the task ends), the reconnect of _listen       *)
(* (lines 160-163), or the reconnect of emit (lines 258-262) called by the *)
(* application, by rpc_send or by a handler that _listen is awaiting.      *)

\* get_and_invoke is over for the current message (it returned, or the
\* listener caught an exception, lines 143-147 / 156-158): back to the
\* receive; a local queue gets its task_done().
MsgDone(w, t) ==
  LET ch == w.tasks[t].ch IN
  [w EXCEPT !.tasks[t].pc = "recv", !.tasks[t].msg = 0, !.tasks[t].fn = "",
            !.tasks[t].iter = NoIter, !.tasks[t].re = FALSE,
            !.chans[ch].unfinished = IF w.tasks[t].eng = IN_PROCESS THEN @ - 1 ELSE @]

\* An exception leaves the current call.
Raise(w, t, exc) ==
  IF w.tasks[t].kind = "listen" /\ w.tasks[t].msg # 0
  THEN MsgDone(w, t)               \* except Exception in _listen
  ELSE Fail(w, t, exc)

RECURSIVE CallNext(_, _)
RECURSIVE StartLoop(_, _)
RECURSIVE StopLoop(_, _)

\* start() returned normally (how: "ok" or "noop")
ReturnFromStart(w, t, how) ==
  IF w.tasks[t].kind = "start" THEN Finish(w, t, how)
  ELSE IF w.tasks[t].kind = "listen" /\ w.tasks[t].msg = 0
       THEN Finish(w, t, "reconnected")       \* line 163, then _listen returns
       ELSE Raise(w, t, "ConnectionError")    \* line 262

---------------------------------------------------------------------------
(* _bind, lines 90-112, and _listen, lines 115-163.                        *)

\* asyncio.create_task(_listen(event))
SpawnListener(w, event) == Spawn(w, NewTask("listen", event))

\* _bind returned to its caller
AfterBind(w, t) ==
  LET ctx == w.tasks[t].ctx
      w1 == [w EXCEPT !.tasks[t].bkey = "", !.tasks[t].bch = None, !.tasks[t].ctx = ""]
  IN CASE ctx = "start_loop" -> StartLoop([w1 EXCEPT !.tasks[t].it = @ + 1], t)
       [] ctx = "start_hb" ->
            StartLoop([w1 EXCEPT !.tasks[t].it = 1, !.tasks[t].n0 = Len(w1.regKeys)], t)
       [] OTHER -> Finish(w1, t, "ok")

\* _bind(event), called by task t from ctx, up to its return or its await of
\* pubsub.subscribe (queue.join() of a new queue does not suspend)
bind(w, t, event, ctx) ==
  LET w1 == [w EXCEPT !.tasks[t].ctx = ctx, !.tasks[t].bkey = event] IN
  IF w1.engine = IN_PROCESS
  THEN IF QueueOf(w1, event) = None
       THEN LET w2 == NewChan(w1, event, None) IN
            AfterBind(SpawnListener([w2 EXCEPT !.registry[event].queue = Len(w2.chans)],
                                    event), t)
       ELSE AfterBind(SpawnListener(w1, event), t)
  ELSE IF QueueOf(w1, event) = None
       THEN IF w1.sub_conn = None THEN Raise(w1, t, "AttributeError")
            ELSE LET w2 == NewChan(w1, event, w1.sub_conn) IN
                 [w2 EXCEPT !.tasks[t].pc = "bind_sub", !.tasks[t].bch = Len(w2.chans)]
       ELSE AfterBind(SpawnListener(w1, event), t)

\* pubsub.subscribe(event) completed, lines 108 and 112
BindSubscribed(w, t) ==
  LET ch == w.tasks[t].bch
      event == w.tasks[t].bkey
  IN IF w.conns[w.chans[ch].conn] # "open" \/ ~w.chans[ch].open
     THEN Raise(w, t, "ConnectionError")
     ELSE AfterBind(SpawnListener([w EXCEPT !.chans[ch].sub = TRUE,
                                            !.registry[event].queue = ch], event), t)

\* lines 130-136: the first step of a listener task
ListenInit(w, t) ==
  LET queue == QueueOf(w, w.tasks[t].key) IN
  IF queue = None THEN Finish(w, t, "noqueue")
  ELSE [w EXCEPT !.tasks[t].pc = "recv", !.tasks[t].ch = queue,
                 !.tasks[t].eng = w.engine]

\* the first handler of hs in iteration order that is not in seen
NextHandler(hs, seen) ==
  HandlerOrder[CHOOSE i \in 1..Len(HandlerOrder) :
                 /\ HandlerOrder[i] \in hs \ seen
                 /\ \A j \in 1..(i - 1) : HandlerOrder[j] \notin hs \ seen]

\* func(message) is called: counted per message and handler
Invoked(w, t, f) ==
  LET m == w.tasks[t].msg IN
  [w EXCEPT !.msgs[m].inv[f] = IF @ < 2 THEN @ + 1 ELSE @,
            !.tasks[t].iter.seen = @ \cup {f}, !.tasks[t].fn = f]

\* get_and_invoke, lines 125-128: the for loop from its next iteration up to
\* a handler that suspends, the end of the set, or an exception.  A set whose
\* size changed since the loop began raises RuntimeError.
CallNext(w, t) ==
  LET tk == w.tasks[t]
      value == loads(w.msgs[tk.msg].body)
  IN IF Cardinality(tk.iter.hs) # tk.iter.n0 THEN Raise(w, t, "RuntimeError")
     ELSE IF tk.iter.hs \ tk.iter.seen = {} THEN MsgDone(w, t)
     ELSE LET f == NextHandler(tk.iter.hs, tk.iter.seen)
              w1 == Invoked(w, t, f)
          IN CASE f = client_handle_rpc_call ->
                    LET r == client_handle(w1, value) IN
                    IF r.exc # "" THEN Raise(r.w, t, r.exc) ELSE CallNext(r.w, t)
               [] f = server_rpc_handler ->
                    \* await remote.server_impl(): the dispatcher of the application
                    IF value.ty # "remote" THEN Raise(w1, t, "AttributeError")
                    ELSE SetPc(w1, t, "await")
               [] f = on_heart_beat -> SetPc(w1, t, "sleep")    \* line 336
               [] OTHER -> SetPc(w1, t, "await")               \* a handler of the application

\* get_and_invoke(event, msg), lines 120-123
get_and_invoke(w, t, m) ==
  LET key == w.tasks[t].key
      handlers == IF HasKey(w, key) THEN w.registry[key].handlers ELSE {}
  IN IF handlers = {} THEN MsgDone(w, t)
     ELSE CallNext([w EXCEPT !.tasks[t].iter =
                      [hs |-> handlers, n0 |-> Cardinality(handlers), seen |-> {},
                       live |-> TRUE]], t)

\* a listener whose pickle.loads is outside the try statement
Receive_Uncaught(w, t) ==
  LET ch == w.tasks[t].ch
      m == Head(w.chans[ch].q)
      w1 == [w EXCEPT !.chans[ch].q = Tail(@), !.tasks[t].msg = m]
  IN IF CanLoad(w1.msgs[m].body) THEN get_and_invoke(w1, t, m)
     ELSE Fail(w1, t, "UnpicklingError")

\* one message is taken from the channel: pickle.loads, then get_and_invoke
Receive(w, t) ==
  LET ch == w.tasks[t].ch
      m == Head(w.chans[ch].q)
      w1 == [w EXCEPT !.chans[ch].q = Tail(@), !.tasks[t].msg = m]
  IN IF CanLoad(w1.msgs[m].body) THEN get_and_invoke(w1, t, m)
     ELSE Raise(w1, t, "UnpicklingError")

---------------------------------------------------------------------------
(* start, lines 181-228.                                                   *)

\* lines 222-228: the loop over _registry.keys() from its next iteration, up
\* to a _bind that suspends; then the first heartbeat and _started = True.
\* A dict whose size changed since the loop began raises RuntimeError.
StartTail(w, t) ==
  LET r == IF w.heart_beat > 0 /\ w.tasks[t].seng = REDIS
           THEN emit(w, heartbeat_channel, Obj(0), "")
           ELSE R(w, "")
  IN IF r.exc # "" THEN Raise(r.w, t, r.exc)
     ELSE ReturnFromStart([r.w EXCEPT !.started = TRUE], t, "ok")

StartLoop(w, t) ==
  LET tk == w.tasks[t] IN
  IF Len(w.regKeys) # tk.n0 THEN Raise(w, t, "RuntimeError")
  ELSE IF tk.it > tk.n0 THEN StartTail(w, t)
  ELSE bind(w, t, w.regKeys[tk.it], "start_loop")

StartLoopBegin(w, t) ==
  StartLoop([w EXCEPT !.tasks[t].it = 1, !.tasks[t].n0 = Len(w.regKeys)], t)

\* lines 195-219, up to the await of the first from_url (REDIS) or through
\* the whole of start (IN_PROCESS, which never suspends)
StartBody(w, t, eng, srv, hb, d) ==
    LET w1 == [w EXCEPT !.engine = eng, !.heart_beat = hb, !.start_server = srv,
                        !.dsn = d, !.tasks[t].seng = eng]
    IN IF eng = REDIS
       THEN IF d = None THEN Raise(w1, t, "SyntaxError")
            ELSE LET w2 == AddHandler(w1, ClientKey, client_handle_rpc_call)
                     w3 == IF srv THEN AddHandler(w2, ServerKey, server_rpc_handler) ELSE w2
                 IN SetPc(w3, t, "start_c1")
       ELSE StartLoopBegin(AddHandler(AddHandler(w1, ClientKey, client_handle_rpc_call),
                                      ServerKey, server_rpc_handler), t)

\* a start that does not look at _started
StartBegin_NoCheck(w, t, eng, srv, hb, d) == StartBody(w, t, eng, srv, hb, d)

\* lines 191-193
StartBegin(w, t, eng, srv, hb, d) ==
  IF w.started THEN ReturnFromStart(w, t, "noop")
  ELSE StartBody(w, t, eng, srv, hb, d)

\* line 212 completed: _pub_conn is set; line 213 is awaited
StartPubConnected(w, t) ==
  LET w1 == NewConn(w) IN
  [w1 EXCEPT !.pub_conn = Len(w1.conns), !.tasks[t].pc = "start_c2"]

\* line 213 completed: _sub_conn is set; lines 215-223 (async_register binds
\* only if _started, line 85)
StartSubConnected(w, t) ==
  LET w1 == NewConn(w)
      w2 == [w1 EXCEPT !.sub_conn = Len(w1.conns)]
  IN IF w2.heart_beat > 0
     THEN LET w3 == AddHandler(w2, HeartbeatKey, on_heart_beat) IN
          IF w3.started THEN bind(w3, t, HeartbeatKey, "start_hb")
          ELSE StartLoopBegin(w3, t)
     ELSE StartLoopBegin(w2, t)

---------------------------------------------------------------------------
(* stop, lines 340-370.                                                    *)

\* stop() returned normally: the caller goes on (start, in a reconnect)
ReturnFromStop(w, t) ==
  IF w.tasks[t].re
  THEN StartBegin([w EXCEPT !.tasks[t].re = FALSE], t, REDIS, w.start_server,
                  w.heart_beat, w.dsn)
  ELSE Finish(w, t, "ok")

\* lines 354-364: the loop over _registry.values() from its next iteration,
\* up to the await of a pubsub.close() or of _sub_conn.close()
StopLoop(w, t) ==
  LET tk == w.tasks[t] IN
  IF Len(w.regKeys) # tk.n0 THEN Raise(w, t, "RuntimeError")
  ELSE IF tk.it > tk.n0
       THEN IF w.sub_conn = None THEN Raise(w, t, "AttributeError")
            ELSE [w EXCEPT !.tasks[t].pc = "stop_sub", !.tasks[t].obj = w.sub_conn]
  ELSE LET binding == w.registry[w.regKeys[tk.it]] IN
       IF binding.queue = Absent THEN StopLoop([w EXCEPT !.tasks[t].it = @ + 1], t)
       ELSE IF binding.queue # None
            THEN [w EXCEPT !.tasks[t].pc = "stop_ps", !.tasks[t].obj = binding.queue]
            ELSE StopLoop([ClearBinding(w, w.regKeys[tk.it]) EXCEPT !.tasks[t].it = @ + 1], t)

\* lines 352-354
StopSubPart(w, t) ==
  IF w.sub_conn # None
  THEN StopLoop([w EXCEPT !.tasks[t].it = 1, !.tasks[t].n0 = Len(w.regKeys)], t)
  ELSE ReturnFromStop(w, t)

RECURSIVE ClearAll(_, _)
\* lines 366-368
ClearAll(w, i) ==
  IF i > Len(w.regKeys) THEN w ELSE ClearAll(ClearBinding(w, w.regKeys[i]), i + 1)

\* lines 345-349 (REDIS: up to the await of _pub_conn.close()) or the whole
\* of stop (IN_PROCESS)
StopBegin(w, t) ==
  LET w1 == [w EXCEPT !.started = FALSE] IN
  IF w1.engine = REDIS
  THEN IF w1.pub_conn # None
       THEN [w1 EXCEPT !.tasks[t].pc = "stop_pub", !.tasks[t].obj = w1.pub_conn]
       ELSE StopSubPart(w1, t)
  ELSE ReturnFromStop(ClearAll(w1, 1), t)

\* _pub_conn.close() returned, line 350
StopPubClosed(w, t) ==
  StopSubPart([w EXCEPT !.conns[w.tasks[t].obj] = "closed", !.pub_conn = None,
                        !.tasks[t].obj = None], t)

\* pubsub.close() returned, lines 360-361: the subscription is gone
StopPubsubClosed(w, t) ==
  LET w1 == [w EXCEPT !.chans[w.tasks[t].obj].open = FALSE, !.tasks[t].obj = None,
                      !.tasks[t].it = @ + 1]
  IN StopLoop(ClearBinding(w1, w.regKeys[w.tasks[t].it]), t)

\* _sub_conn.close() returned, line 364: the connection and every
\* subscription made on it are gone
StopSubClosed(w, t) ==
  LET c == w.tasks[t].obj IN
  ReturnFromStop(
    [w EXCEPT !.conns[c] = "closed", !.sub_conn = None, !.tasks[t].obj = None,
              !.chans = [x \in DOMAIN w.chans |->
                           IF w.chans[x].conn = c
                           THEN [w.chans[x] EXCEPT !.open = FALSE] ELSE w.chans[x]]], t)

\* The reconnect of lines 160-163 and 258-262 begins: await stop()
Reconnect(w, t) == StopBegin([w EXCEPT !.tasks[t].re = TRUE], t)

\* emit called inside a task that goes on after it (a handler, rpc_send):
\* ConnectionError starts the reconnect, any other exception is raised
AfterEmit(r, t, next) ==
  IF r.exc = "" THEN next
  ELSE IF r.exc = "ConnectionError" THEN Reconnect(r.w, t)
  ELSE Raise(r.w, t, r.exc)

---------------------------------------------------------------------------
(* rpc_send, lines 265-294, and what the handlers do when they resume.     *)

\* lines 277-289, up to the await of wait_for
rpc_send(w, t, sn) ==
  LET w1 == [w EXCEPT !.rpc_calls[sn] = [present |-> TRUE, event |-> FALSE,
                                          result |-> PyNone],
                      !.tasks[t].sn = sn]
      r == emit(w1, rpc_server_channel, dumps(Remote(sn)), "")
  IN AfterEmit(r, t, SetPc(r.w, t, "rpc_wait"))

\* lines 293-294, once event.wait() has returned
rpc_result(w, t) ==
  LET response == w.rpc_calls[w.tasks[t].sn].result IN
  IF response.ty # "dict" \/ ~CanLoad(response.data) THEN Raise(w, t, "AttributeError")
  ELSE Finish([w EXCEPT !.tasks[t].val = loads(response.data).data], t, "ok")

\* the dispatcher of the application answers the request it was handed:
\* rpc_respond, lines 297-300, then _server_rpc_handler returns
server_respond(w, t) ==
  LET sn == loads(w.msgs[w.tasks[t].msg].body).sn
      r == emit(w, rpc_client_channel, ReplyDict(sn, ResultOf(sn)), "")
  IN AfterEmit(r, t, CallNext(r.w, t))

\* a heartbeat handler that publishes on its own
heart_beat_emit_Direct(w, t) ==
  IF w.pub_conn = None THEN Raise(w, t, "AttributeError")
  ELSE CallNext(Publish(w, HeartbeatKey, dumps(Obj(0))), t)

\* _on_heart_beat after its sleep, line 337
heart_beat_emit(w, t) ==
  LET r == emit(w, heartbeat_channel, Obj(0), "") IN
  AfterEmit(r, t, CallNext(r.w, t))

---------------------------------------------------------------------------
(* Initial state: the module as loaded, lines 20-32.                       *)
Init ==
  /\ started = FALSE
  /\ engine = IN_PROCESS
  /\ heart_beat = 0
  /\ dsn = None
  /\ start_server = FALSE
  /\ pub_conn = None
  /\ sub_conn = None
  /\ regKeys = <<>>
  /\ registry = [k \in Keys |-> NoItem]
  /\ rpc_calls = [sn \in 1..MaxCalls |-> [present |-> FALSE, event |-> FALSE,
                                          result |-> PyNone]]
  /\ chans = <<>>
  /\ conns = <<>>
  /\ tasks = <<>>
  /\ msgs = <<>>
  /\ ended = NoneEnded
  /\ calls = [reg |-> 0, unsub |-> 0, start |-> 0, stop |-> 0, emit |-> 0, rpc |-> 0,
              remote |-> 0, loss |-> 0, fail |-> 0, bound |-> {}, cfg |-> <<>>,
              arg |-> <<>>]

---------------------------------------------------------------------------
(* Calls of the application.  A call runs up to its first suspension.      *)

\* register(event, handler), lines 51-68
UserRegister(event, h) ==
  /\ calls' = [calls EXCEPT !.reg = @ + 1]
  /\ LET key == EventKey("", event)
         w1 == AddHandler(World, key, h)
     IN Commit(IF w1.started THEN Spawn(w1, NewTask("bind", key)) ELSE w1)

\* await async_register(event, handler), lines 71-87
UserAsyncRegister(event, h) ==
  /\ calls' = [calls EXCEPT !.reg = @ + 1]
  /\ LET key == EventKey("", event)
         w1 == Spawn(AddHandler(World, key, h), NewTask("areg", key))
         t == Len(w1.tasks)
     IN Commit(IF ~w1.ok THEN w1
               ELSE IF w1.started THEN bind(w1, t, key, "areg") ELSE Finish(w1, t, "ok"))

\* unsubscribe(channel, handler)
UserUnsubscribe(event, h) ==
  /\ calls' = [calls EXCEPT !.unsub = @ + 1]
  /\ Commit(unsubscribe(World, event, h, ""))

\* await start(engine, start_server, heart_beat, dsn=...) (calls remembers
\* the engine and the dsn of the last call)
UserStart(eng, srv, hb, d) ==
  /\ calls' = [calls EXCEPT !.start = @ + 1, !.arg = <<eng, d>>]
  /\ LET w1 == Spawn(World, NewTask("start", "")) IN
     Commit(IF ~w1.ok THEN w1 ELSE StartBegin(w1, Len(w1.tasks), eng, srv, hb, d))

\* await stop()
UserStop ==
  /\ calls' = [calls EXCEPT !.stop = @ + 1]
  /\ LET w1 == Spawn(World, NewTask("stop", "")) IN
     Commit(IF ~w1.ok THEN w1 ELSE StopBegin(w1, Len(w1.tasks)))

\* await emit(channel, message)
UserEmit(event, message) ==
  /\ calls' = [calls EXCEPT !.emit = @ + 1]
  /\ LET w1 == Spawn(World, NewTask("emit", EventKey("", event)))
         t == Len(w1.tasks)
         r == emit(w1, event, message, "")
     IN Commit(IF ~w1.ok THEN w1 ELSE AfterEmit(r, t, Finish(r.w, t, "ok")))

\* await rpc_send(remote) with remote.sn = sn, an id no call has used
UserRpcSend(sn) ==
  /\ ~rpc_calls[sn].present
  /\ calls' = [calls EXCEPT !.rpc = @ + 1]
  /\ LET w1 == Spawn(World, NewTask("rpc", "")) IN
     Commit(IF ~w1.ok THEN w1 ELSE rpc_send(w1, Len(w1.tasks), sn))

---------------------------------------------------------------------------
(* Steps of the event loop: a task resumes from the await it is at.        *)

Live(t) == t \in DOMAIN tasks
At(t, pc) == t \in DOMAIN tasks /\ tasks[t].pc = pc

\* a task made by create_task runs for the first time
TaskStart(t) ==
  /\ At(t, "new")
  /\ UNCHANGED calls
  /\ Commit(IF tasks[t].kind = "listen" THEN ListenInit(World, t)
            ELSE bind(World, t, tasks[t].key, "task"))

\* the connection a listener's pubsub reads from is lost
LostFor(t) ==
  /\ tasks[t].eng = REDIS
  /\ conns[chans[tasks[t].ch].conn] = "lost"

\* queue.get() / the next item of queue.listen() is there: lines 138-147, 150-158
Deliver(t) ==
  /\ At(t, "recv")
  /\ ~LostFor(t)
  /\ tasks[t].eng = REDIS => chans[tasks[t].ch].open
  /\ chans[tasks[t].ch].q # <<>>
  /\ UNCHANGED calls
  /\ Commit(Receive(World, t))

\* queue.listen() raises ConnectionError, lines 160-162
ListenLost(t) ==
  /\ At(t, "recv")
  /\ LostFor(t)
  /\ UNCHANGED calls
  /\ Commit(Reconnect(World, t))

\* queue.listen() ends because stop() closed the pubsub: _listen returns
ListenClosed(t) ==
  /\ At(t, "recv")
  /\ tasks[t].eng = REDIS
  /\ ~LostFor(t)
  /\ ~chans[tasks[t].ch].open
  /\ UNCHANGED calls
  /\ Commit(Finish(World, t, "closed"))

\* a handler of the application returns, line 128
HandlerReturn(t) ==
  /\ At(t, "await")
  /\ tasks[t].fn # server_rpc_handler
  /\ UNCHANGED calls
  /\ Commit(CallNext(World, t))

\* the dispatcher sends its reply and _server_rpc_handler returns
Dispatched(t) ==
  /\ At(t, "await")
  /\ tasks[t].fn = server_rpc_handler
  /\ UNCHANGED calls
  /\ Commit(server_respond(World, t))

\* asyncio.sleep(_heart_beat) is over, lines 336-337
HeartbeatWake(t) ==
  /\ At(t, "sleep")
  /\ UNCHANGED calls
  /\ Commit(heart_beat_emit(World, t))

\* pubsub.subscribe returns, line 107
Subscribed(t) ==
  /\ At(t, "bind_sub")
  /\ UNCHANGED calls
  /\ Commit(BindSubscribed(World, t))

\* aioredis.from_url returns, lines 212 and 213
PubConnected(t) ==
  /\ At(t, "start_c1")
  /\ UNCHANGED calls
  /\ Commit(StartPubConnected(World, t))

SubConnected(t) ==
  /\ At(t, "start_c2")
  /\ UNCHANGED calls
  /\ Commit(StartSubConnected(World, t))

\* a close() of stop returns, lines 349, 358, 363
PubClosed(t) ==
  /\ At(t, "stop_pub")
  /\ UNCHANGED calls
  /\ Commit(StopPubClosed(World, t))

PubsubClosed(t) ==
  /\ At(t, "stop_ps")
  /\ UNCHANGED calls
  /\ Commit(StopPubsubClosed(World, t))

SubClosed(t) ==
  /\ At(t, "stop_sub")
  /\ UNCHANGED calls
  /\ Commit(StopSubClosed(World, t))

\* a close() of stop raises
CloseFails(t) ==
  /\ Live(t)
  /\ calls' = [calls EXCEPT !.fail = @ + 1]
  /\ tasks[t].pc \in {"stop_pub", "stop_ps", "stop_sub"}
  /\ Commit(Raise(World, t, "ConnectionError"))

\* event.wait() returns before the timeout, lines 289, 293-294
RpcReturn(t) ==
  /\ At(t, "rpc_wait")
  /\ rpc_calls[tasks[t].sn].event
  /\ UNCHANGED calls
  /\ Commit(rpc_result(World, t))

\* wait_for times out, lines 290-291
RpcTimeout(t) ==
  /\ At(t, "rpc_wait")
  /\ ~rpc_calls[tasks[t].sn].event
  /\ UNCHANGED calls
  /\ Commit(Raise(World, t, "TimeoutError"))

\* the connection to the broker breaks (calls remembers the event keys that
\* had a channel on it, and the configuration of the bus)
ConnLost(c) ==
  /\ c \in DOMAIN conns
  /\ conns[c] = "open"
  /\ calls' = [calls EXCEPT !.loss = @ + 1,
                            !.bound = {k \in Keys : /\ QueueOf(World, k) # None
                                                    /\ chans[QueueOf(World, k)].conn = c},
                            !.cfg = <<engine, heart_beat, dsn, start_server>>]
  /\ conns' = [conns EXCEPT ![c] = "lost"]
  /\ UNCHANGED <<started, engine, heart_beat, dsn, start_server, pub_conn, sub_conn,
                 regKeys, registry, rpc_calls, chans, tasks, msgs, ended>>

\* another process publishes message on the broker channel of event
BrokerPublish(event, message) ==
  /\ engine = REDIS
  /\ calls' = [calls EXCEPT !.remote = @ + 1]
  /\ Commit(Publish(World, EventKey("", event), dumps(message)))

---------------------------------------------------------------------------
(* Specifications.  Each one is a scenario: which calls the application    *)
(* makes, and how many of each.                                            *)

TaskIds == 1..MaxTasks
\* a connection string
DSN == 1

\* the event loop runs a task that is ready
Loop(t) == TaskStart(t) \/ Deliver(t) \/ HandlerReturn(t)
\* an await on the broker completes
Connect(t) == PubConnected(t) \/ SubConnected(t) \/ Subscribed(t)

\* Spec: a bus of either engine in use: handlers are registered, the bus is
\* started, messages are emitted.
MaxRegs == 2
MaxEmits == 2

Next ==
  \/ \E h \in UserHandlers :
       calls.reg < MaxRegs /\ (UserRegister("a", h) \/ UserAsyncRegister("a", h))
  \/ \E eng \in {IN_PROCESS, REDIS} : calls.start = 0 /\ UserStart(eng, FALSE, 0, DSN)
  \/ calls.emit < MaxEmits /\ UserEmit("a", Obj(1))
  \/ \E t \in TaskIds : Loop(t) \/ Connect(t)

Spec == Init /\ [][Next]_vars

\* SpecUnsub: handlers come and go on an in-process bus that is started once.
UnsubRegs == 3
MaxUnsubs == 2
UnsubEmits == 1

NextUnsub ==
  \/ \E h \in UserHandlers :
       calls.reg < UnsubRegs /\ (UserRegister("a", h) \/ UserAsyncRegister("a", h))
  \/ \E h \in UserHandlers : calls.unsub < MaxUnsubs /\ UserUnsubscribe("a", h)
  \/ calls.start = 0 /\ UserStart(IN_PROCESS, FALSE, 0, None)
  \/ calls.emit < UnsubEmits /\ UserEmit("a", Obj(1))
  \/ \E t \in TaskIds : Loop(t)

SpecUnsub == Init /\ [][NextUnsub]_vars

\* SpecEmit: messages are emitted on a bus of either engine whose one handler
\* comes and goes; the bus is started, and started again with any arguments
\* while it is up.
EmitRegs == 1
EmitUnsubs == 1
MaxStarts == 2

NextEmit ==
  \/ calls.reg < EmitRegs /\ (UserRegister("a", "h1") \/ UserAsyncRegister("a", "h1"))
  \/ calls.unsub < EmitUnsubs /\ UserUnsubscribe("a", "h1")
  \/ \E eng \in {IN_PROCESS, REDIS} :
       calls.start = 0 /\ UserStart(eng, FALSE, 0, DSN)
  \/ \E eng \in {IN_PROCESS, REDIS}, srv \in BOOLEAN, hb \in {0, 1}, d \in {None, DSN} :
       calls.start < MaxStarts /\ started /\ UserStart(eng, srv, hb, d)
  \/ calls.emit < MaxEmits /\ UserEmit("a", Obj(1))
  \/ \E t \in TaskIds : Loop(t) \/ Connect(t)

SpecEmit == Init /\ [][NextEmit]_vars

\* SpecHeartbeat: a Redis bus is started with a heartbeat interval of 1;
\* another process of the application publishes heartbeats too.
MaxRemote == 1

NextHeartbeat ==
  \/ calls.start = 0 /\ UserStart(REDIS, FALSE, 1, DSN)
  \/ calls.remote < MaxRemote /\ BrokerPublish(heartbeat_channel, Obj(9))
  \/ calls.reg < EmitRegs /\ UserRegister("a", "h1")
  \/ calls.emit < MaxEmits /\ UserEmit("a", Obj(1))
  \/ \E t \in TaskIds : Loop(t) \/ Connect(t) \/ HeartbeatWake(t)

SpecHeartbeat == Init /\ [][NextHeartbeat]_vars

\* SpecRpc: remote calls on a started bus of either engine whose server
\* side runs in this process.  The dispatcher answers every request it is
\* handed.  The caller of the last call is in a hurry: its timeout may fire
\* at any moment before the reply is in; the timeouts of the others are
\* longer than any answer takes.
Hasty == MaxCalls

\* the task that runs rpc_send for call sn
Caller(t, sn) == t \in DOMAIN tasks /\ tasks[t].kind = "rpc" /\ tasks[t].sn = sn
\* the steps of the tasks of event key: its bind and its listener
Serve(t, key) ==
  /\ t \in DOMAIN tasks /\ tasks[t].key = key
  /\ (TaskStart(t) \/ Deliver(t) \/ Dispatched(t))

NextRpc ==
  \/ \E eng \in {IN_PROCESS, REDIS} : calls.start = 0 /\ UserStart(eng, TRUE, 0, DSN)
  \/ \E sn \in 1..MaxCalls : started /\ UserRpcSend(sn)
  \/ \E t \in TaskIds : Connect(t)
  \/ \E t \in TaskIds : \E key \in {ClientKey, ServerKey} : Serve(t, key)
  \/ \E t \in TaskIds : \E sn \in 1..MaxCalls : Caller(t, sn) /\ RpcReturn(t)
  \/ \E t \in TaskIds : Caller(t, Hasty) /\ RpcTimeout(t)

\* The event loop goes on running the tasks that are ready, and the broker
\* goes on completing requests.  A timeout is not bound to fire.
RpcProgress ==
  \E t \in TaskIds :
    \/ Connect(t)
    \/ \E key \in {ClientKey, ServerKey} : Serve(t, key)
    \/ \E sn \in 1..MaxCalls : Caller(t, sn) /\ RpcReturn(t)

FairRpc == WF_vars(RpcProgress)

SpecRpc == Init /\ [][NextRpc]_vars /\ FairRpc

\* SpecLife: the life of a Redis bus: it is started, the connection its
\* listeners read from is lost while the bus is up, the application stops
\* the bus, a close() fails.
MaxStops == 1
MaxLoss == 1
MaxCloseFails == 1

\* every task is a listener waiting on a subscription that is alive
Quiet ==
  \A t \in DOMAIN tasks :
    /\ tasks[t].kind = "listen" /\ tasks[t].pc = "recv"
    /\ chans[tasks[t].ch].open /\ ~LostFor(t)

NextLife ==
  \/ calls.start = 0 /\ calls.reg < EmitRegs /\ UserRegister("a", "h1")
  \/ calls.start = 0 /\ UserStart(REDIS, FALSE, 0, DSN)
  \/ calls.stop < MaxStops /\ UserStop
  \/ calls.loss < MaxLoss /\ started /\ Quiet /\ ConnLost(sub_conn)
  \/ \E t \in TaskIds : calls.fail < MaxCloseFails /\ CloseFails(t)
  \/ \E t \in TaskIds : TaskStart(t) \/ Connect(t) \/ ListenLost(t) \/ ListenClosed(t)
  \/ \E t \in TaskIds : PubClosed(t) \/ PubsubClosed(t) \/ SubClosed(t)

SpecLife == Init /\ [][NextLife]_vars

\* a task is inside start(), past the test of _started
InStart(t) ==
  /\ t \in DOMAIN tasks
  /\ \/ tasks[t].pc \in {"start_c1", "start_c2"}
     \/ tasks[t].pc = "bind_sub" /\ tasks[t].ctx \in {"start_loop", "start_hb"}

\* SpecConfig: the application starts a bus of either engine, with or
\* without a dsn, and tries again after a start that failed.
NextConfig ==
  \/ calls.reg < EmitRegs /\ UserRegister("a", "h1")
  \/ \E eng \in {IN_PROCESS, REDIS}, d \in {None, DSN} :
       /\ calls.start < MaxStarts /\ ~started /\ \A t \in TaskIds : ~InStart(t)
       /\ UserStart(eng, FALSE, 0, d)
  \/ calls.emit < MaxEmits /\ UserEmit("a", Obj(1))
  \/ \E t \in TaskIds : Loop(t) \/ Connect(t)

SpecConfig == Init /\ [][NextConfig]_vars

\* the steps of a stop() on the Redis engine, and of the listeners it ends
Closing(t) == PubClosed(t) \/ PubsubClosed(t) \/ SubClosed(t) \/ ListenClosed(t)

\* SpecHeartbeatStop: a Redis bus with a heartbeat interval of 1 receives
\* heartbeats (another process publishes one), and the application stops it.
NextHeartbeatStop ==
  \/ calls.start = 0 /\ UserStart(REDIS, FALSE, 1, DSN)
  \/ calls.remote < MaxRemote /\ BrokerPublish(heartbeat_channel, Obj(9))
  \/ calls.stop < MaxStops /\ UserStop
  \/ \E t \in TaskIds : TaskStart(t) \/ Deliver(t) \/ HeartbeatWake(t)
  \/ \E t \in TaskIds : Connect(t) \/ Closing(t)

SpecHeartbeatStop == Init /\ [][NextHeartbeatStop]_vars

\* SpecWindow: handlers are registered while a Redis start is suspended at one
\* of its awaits, _started still being False.
WindowRegs == 2

NextWindow ==
  \/ \E srv \in BOOLEAN : calls.start = 0 /\ UserStart(REDIS, srv, 0, DSN)
  \/ \E h \in UserHandlers :
       /\ calls.reg < WindowRegs /\ \E t \in TaskIds : InStart(t)
       /\ UserRegister("a", h) \/ UserAsyncRegister("a", h)
  \/ \E t \in TaskIds : TaskStart(t) \/ Connect(t)

SpecWindow == Init /\ [][NextWindow]_vars

\* SpecCycle: the application starts the bus, stops it and starts it again
\* with the same engine, each call awaited before the next; a handler is
\* registered before the stop, and messages are emitted before the stop (1)
\* and after the restart (2).
CycleEmits == 2
\* no call of start or stop by the application is in progress
NoCall == \A t \in DOMAIN tasks : tasks[t].kind \notin {"start", "stop"}
Restarted == calls.stop > 0 /\ calls.start > 1 /\ started

NextCycle ==
  \/ calls.stop = 0 /\ calls.reg < EmitRegs /\ UserRegister("a", "h1")
  \/ \E eng \in {IN_PROCESS, REDIS} : calls.start = 0 /\ UserStart(eng, FALSE, 0, DSN)
  \/ calls.stop < MaxStops /\ started /\ UserStop
  \/ calls.start = 1 /\ calls.stop > 0 /\ NoCall /\ UserStart(engine, FALSE, 0, DSN)
  \/ calls.emit < CycleEmits /\ calls.stop = 0 /\ started /\ UserEmit("a", Obj(1))
  \/ calls.emit < CycleEmits /\ Restarted /\ UserEmit("a", Obj(2))
  \/ \E t \in TaskIds : Loop(t) \/ Connect(t) \/ Closing(t)

SpecCycle == Init /\ [][NextCycle]_vars

\* SpecPoison: handlers are registered, the bus is started, and messages are
\* emitted to the event, some of them bytes that are no pickle.  The event
\* loop goes on running the tasks that are ready and the broker goes on
\* completing requests.
PoisonEmits == 2

NextPoison ==
  \/ \E h \in UserHandlers : calls.start = 0 /\ calls.reg < MaxRegs /\ UserRegister("a", h)
  \/ \E eng \in {IN_PROCESS, REDIS} : calls.start = 0 /\ UserStart(eng, FALSE, 0, DSN)
  \/ \E message \in {Garbage, Obj(1)} : calls.emit < PoisonEmits /\ UserEmit("a", message)
  \/ \E t \in TaskIds : Loop(t) \/ Connect(t)

FairPoison == WF_vars(\E t \in TaskIds : Loop(t) \/ Connect(t))

SpecPoison == Init /\ [][NextPoison]_vars /\ FairPoison

---------------------------------------------------------------------------
(* Properties.                                                             *)

ListenerOn(t, key) == tasks[t].kind = "listen" /\ tasks[t].key = key
\* message m is with a listener (in get_and_invoke)
Held(m) == \E t \in DOMAIN tasks : tasks[t].kind = "listen" /\ tasks[t].msg = m
\* message m waits in a channel
Queued(m) == \E c \in DOMAIN chans : InSeq(m, chans[c].q)
\* some handler was invoked with message m
Begun(m) == \E h \in Handlers : msgs[m].inv[h] > 0


\* message m was handled: no channel and no listener holds it any more
Handled(m) == ~Held(m) /\ ~Queued(m)

\* C1: a handler registered for an event, however often, is invoked exactly
\* once with each message emitted to that event: never twice, and (while no
\* handler is unsubscribed) once the message was handled, once.
C1_InvokedOnce ==
  \A m \in DOMAIN msgs : \A h \in UserHandlers :
    /\ msgs[m].inv[h] <= 1
    /\ (calls.unsub = 0 /\ Handled(m) /\ h \in msgs[m].must) => msgs[m].inv[h] = 1

\* C2: the messages of one event are handled strictly one after the other, in
\* the order they were emitted: no handler is invoked with a later message
\* while an earlier message of the same event is still queued or being handled.
C2_Sequential ==
  \A m1, m2 \in DOMAIN msgs :
    (m1 < m2 /\ msgs[m1].key = msgs[m2].key /\ Begun(m2)) => Handled(m1)

\* C7: after unsubscribe(key, handler) no message emitted afterwards invokes
\* the handler (a message only ever invokes handlers registered at or after
\* its emission), and a handler registered for the key after an unsubscribe
\* receives every message emitted once it is registered and bound.
C7_UnsubscribeEffect ==
  \A m \in DOMAIN msgs :
    /\ \A h \in Handlers : msgs[m].inv[h] > 0 => h \in msgs[m].allowed
    /\ Handled(m) => \A h \in msgs[m].late : msgs[m].inv[h] >= 1

\* the transport of the bus works
Healthy == engine = REDIS => (pub_conn # None /\ conns[pub_conn] = "open")
\* the step is a call of emit / of start by the application
EmitCalled == calls'.emit = calls.emit + 1
StartCalled == calls'.start = calls.start + 1

\* C9: on a started bus with a healthy transport emit returns at once and
\* without raising; when the event has no handler (no binding, or an empty
\* handler set) the call leaves the registry as it is and invokes no handler,
\* and a message emitted to no handler is never handed to one unless one was
\* registered since.
C9_NoListenerDiscard ==
  /\ [][(EmitCalled /\ started /\ Healthy) =>
          /\ tasks' = tasks /\ ended'.kind = "emit" /\ ended'.res = "ok"
          /\ HandlersOf(World, ended'.key) = {} =>
               /\ registry' = registry /\ regKeys' = regKeys
               /\ \A m \in DOMAIN msgs' : \A h \in Handlers :
                    msgs'[m].inv[h] = IF m \in DOMAIN msgs THEN msgs[m].inv[h] ELSE 0]_vars
  /\ [](\A m \in DOMAIN msgs : \A h \in Handlers :
          msgs[m].inv[h] > 0 => h \in msgs[m].allowed)

\* C9 happens: on an in-process bus a message was emitted to an event bound
\* with an empty handler set, and the listener has taken and dropped it; and
\* an emit to an event without any binding has returned.
C9_Witness ==
  /\ engine = IN_PROCESS /\ started
  /\ \E m \in DOMAIN msgs : msgs[m].allowed = {} /\ Handled(m)
  /\ ended.kind = "emit" /\ ended.res = "ok"

\* C10: start called while the bus is started is a no-op: no channel, task,
\* connection or handler is made and the configuration stays as it is.
C10_StartIdempotent ==
  [][(StartCalled /\ started) =>
       /\ UNCHANGED <<started, engine, heart_beat, dsn, start_server, pub_conn,
                      sub_conn, regKeys, registry, rpc_calls, chans, conns, tasks, msgs>>
       /\ ended'.kind = "start" /\ ended'.res = "noop"]_vars

\* C10 happens: a start returned as a no-op on a bus with channels and
\* listeners
C10_Witness ==
  /\ ended.kind = "start" /\ ended.res = "noop" /\ started
  /\ \E t \in DOMAIN tasks : tasks[t].kind = "listen" /\ tasks[t].pc = "recv"

\* C6: when start is called with the Redis engine and a heartbeat interval
\* above 0, a first heartbeat is published as part of start: once start has
\* returned, the bus has published a heartbeat message.
C6_FirstHeartbeat ==
  (ended.kind = "start" /\ ended.res = "ok" /\ engine = REDIS /\ heart_beat > 0) =>
    \E m \in DOMAIN msgs : msgs[m].key = HeartbeatKey /\ msgs[m].body = dumps(Obj(0))

\* call sn is waiting for its reply
Waiting(sn) == \E t \in DOMAIN tasks : Caller(t, sn) /\ tasks[t].pc = "rpc_wait"
\* rpc_send has returned val for call sn
Returned(sn, val) ==
  ended.kind = "rpc" /\ ended.sn = sn /\ ended.res = "ok" /\ ended.val = val

C4_LateReplyDiscarded ==
  (ended.kind = "rpc" /\ ended.res = "TimeoutError") =>
    /\ ~rpc_calls[ended.sn].event
    /\ rpc_calls[ended.sn].result.ty = "None"

\* key has a channel on a live connection and a listener draining it
Served(key) ==
  LET q == QueueOf(World, key) IN
  /\ q # None /\ chans[q].open /\ chans[q].sub /\ conns[chans[q].conn] = "open"
  /\ \E t \in DOMAIN tasks : ListenerOn(t, key) /\ tasks[t].ch = q /\ tasks[t].pc = "recv"

\* C5: after the subscribe connection of a started Redis bus was lost (and
\* the application neither stopped the bus nor saw a close fail), once every
\* listener has observed the loss and the bus has come to rest it is started
\* again with the configuration it had, and every event key that had a
\* channel before the loss has a channel and a listener.
C5_Reconnect ==
  (calls.loss > 0 /\ calls.stop = 0 /\ calls.fail = 0 /\ Quiet) =>
    /\ started
    /\ <<engine, heart_beat, dsn, start_server>> = calls.cfg
    /\ \A key \in calls.bound : Served(key)

\* the step ends a stop() called by the application
StopEnded ==
  /\ ended'.kind = "stop"
  /\ \/ Len(tasks') < Len(tasks)
     \/ calls'.stop = calls.stop + 1 /\ Len(tasks') = Len(tasks)

\* C8: stop() never propagates a failure, even when a close fails: when it
\* ends it has returned normally, the bus is stopped and both connections are
\* released.
C8_StopTotal ==
  [][StopEnded => /\ ended'.res = "ok"
                  /\ ~started'
                  /\ pub_conn' = None /\ sub_conn' = None]_vars

\* C11: start with the Redis engine and no dsn fails with a configuration
\* error before anything is touched: no connection, no registration, no
\* binding, and the bus is stopped with the engine and the registry it had.
C11_ConfigError ==
  [][(StartCalled /\ ~started /\ calls'.arg = <<REDIS, None>>) =>
       /\ ended'.kind = "start" /\ ended'.res = "SyntaxError"
       /\ UNCHANGED <<started, engine, pub_conn, sub_conn, regKeys, registry,
                      chans, conns, tasks>>]_vars

\* m is a heartbeat this process published
OwnHeartbeat(ms, m) == ms[m].key = HeartbeatKey /\ ms[m].body = dumps(Obj(0))
\* the step publishes a heartbeat
HeartbeatPublished == \E m \in DOMAIN msgs' \ DOMAIN msgs : OwnHeartbeat(msgs', m)

\* C12: a heartbeat is only ever published while the bus is started: once
\* stop() has set _started to False no step publishes one, not even the
\* handler that was sleeping when stop() was called.
C12_NoHeartbeatAfterStop == [][HeartbeatPublished => started]_vars

\* C12 happens: the bus was stopped, and a heartbeat handler that had been
\* handed a heartbeat has slept, woken and returned without any heartbeat of
\* this process being published.
C12_Witness ==
  /\ calls.stop > 0 /\ ~started
  /\ \E m \in DOMAIN msgs : msgs[m].inv[on_heart_beat] > 0 /\ Handled(m)
  /\ \A m \in DOMAIN msgs : ~OwnHeartbeat(msgs, m)

\* the listener tasks of an event key
ListenersOf(key) == {t \in DOMAIN tasks : ListenerOn(t, key)}
\* the event key has a channel
Bound(key) == HasKey(World, key) /\ registry[key].queue \notin {None, Absent}

\* C13: in every state each event key that has a channel has exactly one
\* listener task; binding a key that already has a channel adds no listener.
C13_OneListener == \A k \in Keys : Bound(k) => Cardinality(ListenersOf(k)) = 1

\* the channels (queues or pubsub subscriptions) created for an event key
ChannelsOf(key) == {c \in DOMAIN chans : chans[c].key = key /\ chans[c].open}

\* C14: bind executions for one event key that interleave at the await of
\* pubsub.subscribe create at most one channel for the key.
C14_OneChannel == \A k \in Keys : Cardinality(ChannelsOf(k)) <= 1

\* C15: at no point are two executions of start past the already-started
\* check (line 191) at the same time, the starts of reconnecting listeners
\* included.
C15_OneStartInFlight == Cardinality({t \in DOMAIN tasks : InStart(t)}) <= 1

\* the number of tasks running start() for the application
Starting(ts) == Cardinality({t \in DOMAIN ts : ts[t].kind = "start"})
\* the step ends a call of start(): it returns or raises
StartEnded ==
  \/ Starting(tasks') < Starting(tasks)
  \/ calls'.start = calls.start + 1 /\ Starting(tasks') = Starting(tasks)

\* C16: when handlers were registered while a Redis start was suspended
\* before setting _started, start still returns normally with the bus
\* started, and every key that got a handler has a channel and a listener.
C16_WindowRegistration ==
  [][(StartEnded /\ calls.reg > 0) =>
       /\ ended'.kind = "start" /\ ended'.res = "ok" /\ started'
       /\ \A k \in UserKeys :
            registry'[k].handlers # {} =>
              /\ registry'[k].queue \notin {None, Absent}
              /\ \E t \in DOMAIN tasks' : tasks'[t].kind = "listen" /\ tasks'[t].key = k]_vars

\* C17: the pending-call table holds only ids of calls whose rpc_send is still
\* in progress: once rpc_send has returned or failed with Timeout, the record
\* of its id is gone.
C17_NoStaleRecord ==
  \A sn \in 1..MaxCalls :
    rpc_calls[sn].present => \E t \in DOMAIN tasks : Caller(t, sn)

\* C18: on the in-process engine no listener stays alive on a queue that the
\* registry no longer references: every listener that waits on or handles
\* messages of a queue has the queue its key is bound to.
C18_NoLeakedListener ==
  engine = IN_PROCESS =>
    \A t \in DOMAIN tasks :
      (tasks[t].kind = "listen" /\ tasks[t].pc # "new") =>
        QueueOf(World, tasks[t].key) = tasks[t].ch

\* m was emitted after the restart
AfterRestart(m) == msgs[m].body = dumps(Obj(2))

\* C20: after a stop followed by a start the handler set of every user key is
\* empty, and a handler registered before the stop is invoked for no message
\* emitted after the restart.
C20_HandlersCleared ==
  /\ Restarted => \A k \in UserKeys : registry[k].handlers = {}
  /\ \A m \in DOMAIN msgs : AfterRestart(m) => \A h \in UserHandlers : msgs[m].inv[h] = 0

\* the payload of message m fails to decode
Poison(m) == m \in DOMAIN msgs /\ ~CanLoad(msgs[m].body)
\* m is a valid message that arrived on its key after a poison message
AfterPoison(m) ==
  /\ m \in DOMAIN msgs /\ CanLoad(msgs[m].body)
  /\ \E p \in 1..(m - 1) : Poison(p) /\ msgs[p].key = msgs[m].key
\* every handler the key had when m was emitted was invoked once with m
Delivered(m) ==
  m \in DOMAIN msgs /\ Handled(m) /\ \A h \in msgs[m].must : msgs[m].inv[h] = 1
\* the messages of queue c that a listener took and has not acknowledged
InHand(c) ==
  Cardinality({t \in DOMAIN tasks : tasks[t].kind = "listen" /\ tasks[t].ch = c
                                    /\ tasks[t].msg # 0})

\* C19: a message whose payload fails to decode is dropped: no handler is
\* invoked with it, an in-process queue counts it done exactly once, no
\* listener ends with an exception, and every valid message that arrives on
\* the key after it is delivered to the handlers of the key.
C19_PoisonDropped ==
  /\ [](\A m \in DOMAIN msgs : Poison(m) => ~Begun(m))
  /\ [](\A c \in DOMAIN chans :
          chans[c].conn = None => chans[c].unfinished = Len(chans[c].q) + InHand(c))
  /\ [](ended.kind = "listen" => ended.pc # "failed")
  /\ \A m \in 1..MaxMsgs : (AfterPoison(m) /\ Queued(m)) ~> Delivered(m)

\* C19 happens: on an in-process bus a poison message was taken from the
\* queue and dropped, and a valid message emitted after it was delivered to a
\* handler by the same listener, which waits for the next one.
C19_Witness ==
  \E p \in DOMAIN msgs, m \in DOMAIN msgs :
    /\ engine = IN_PROCESS
    /\ Poison(p) /\ Handled(p) /\ p < m /\ AfterPoison(m) /\ msgs[m].key = msgs[p].key
    /\ Delivered(m) /\ msgs[m].must # {}
    /\ \E t \in DOMAIN tasks : ListenerOn(t, msgs[m].key) /\ tasks[t].pc = "recv"
====
